---- MODULE Spec2Model ----
(***************************************************************************)
(* Model of app.py, the Fintech Sentiment Dashboard: a Streamlit script    *)
(* that is executed top to bottom once per user interaction.  The state    *)
(* is the backing CSV file, the st.cache_data entry of load_data, the      *)
(* session's widget values, and the names the running script has bound.    *)
(***************************************************************************)
EXTENDS Integers, Sequences, FiniteSets, TLC

(***************************************************************************)
(* Bounds of the explored input space.                                     *)
(***************************************************************************)
MaxRows == 2
MaxReads == 3

(***************************************************************************)
(* Cell values.  An empty CSV field is parsed by read_csv as NaN.          *)
(***************************************************************************)
NaN == "nan"
None == "None"
All == "All"

Apps == {"Google Pay", "PhonePe"}
VersionTexts == {"", "1.2.0", "1.10.0"}
Labels == {"negative", "positive"}
AtTexts == {"2023-05-02 09:00:00", "2023-05-01 10:00:00", "2023-05-01 18:30:00"}

CsvRows == [app_name : Apps, reviewCreatedVersion : VersionTexts,
            sentiment_label : Labels, at : AtTexts]

RECURSIVE SeqsUpTo(_, _)
SeqsUpTo(S, n) ==
    IF n = 0 THEN {<< >>}
    ELSE LET shorter == SeqsUpTo(S, n - 1)
         IN  shorter \cup {Append(s, x) : s \in {t \in shorter : Len(t) = n - 1}, x \in S}

Csvs == SeqsUpTo(CsvRows, MaxRows) \ {<< >>}

CsvRow(a, v, l, t) ==
    [app_name |-> a, reviewCreatedVersion |-> v, sentiment_label |-> l, at |-> t]

SampleCsvs ==
    { << CsvRow("PhonePe", "1.2.0", "negative", "2023-05-02 09:00:00"),
         CsvRow("Google Pay", "1.10.0", "negative", "2023-05-01 18:30:00"),
         CsvRow("Google Pay", "", "positive", "2023-05-01 10:00:00") >>,
      << CsvRow("Google Pay", "1.2.0", "negative", "2023-05-02 09:00:00"),
         CsvRow("Google Pay", "1.2.0", "negative", "2023-05-01 10:00:00"),
         CsvRow("PhonePe", "1.10.0", "positive", "2023-05-01 18:30:00") >>,
      << CsvRow("PhonePe", "", "negative", "2023-05-01 10:00:00") >> }

(***************************************************************************)
(* Python's ordering of the strings that occur in the model (str.__lt__).  *)
(***************************************************************************)
StrOrder == << "1.10.0", "1.2.0", "All", "Google Pay", "PhonePe", "negative", "positive" >>

StrRank(s) == CHOOSE i \in 1..Len(StrOrder) : StrOrder[i] = s

(***************************************************************************)
(* Frames and series.  A frame keeps the index labels of its rows.         *)
(***************************************************************************)
EmptyFrame == [index |-> << >>, rows |-> << >>]

ParseField(text) == IF text = "" THEN NaN ELSE text

ReadCsv(lines) ==
    [index |-> [i \in 1..Len(lines) |-> i - 1],
     rows  |-> [i \in 1..Len(lines) |->
                  [app_name |-> ParseField(lines[i].app_name),
                   reviewCreatedVersion |-> ParseField(lines[i].reviewCreatedVersion),
                   sentiment_label |-> ParseField(lines[i].sentiment_label),
                   at |-> ParseField(lines[i].at)]]]

Column(frame, c) == [i \in 1..Len(frame.rows) |-> frame.rows[i][c]]

NanEq(a, b) == a # NaN /\ b # NaN /\ a = b

EqMask(series, v) == [i \in 1..Len(series) |-> NanEq(series[i], v)]

AndMask(m1, m2) == [i \in 1..Len(m1) |-> m1[i] /\ m2[i]]

Shape0(frame) == Len(frame.rows)

RECURSIVE Positions(_, _)
Positions(mask, i) ==
    IF i > Len(mask) THEN << >>
    ELSE IF mask[i] THEN << i >> \o Positions(mask, i + 1)
    ELSE Positions(mask, i + 1)

GetItemBool(frame, mask) ==
    LET pos == Positions(mask, 1)
    IN  [index |-> [k \in 1..Len(pos) |-> frame.index[pos[k]]],
         rows  |-> [k \in 1..Len(pos) |-> frame.rows[pos[k]]]]

Member(seq, v) == \E i \in 1..Len(seq) : seq[i] = v

RECURSIVE Unique(_)
Unique(series) ==
    IF series = << >> THEN << >>
    ELSE LET front == Unique(SubSeq(series, 1, Len(series) - 1))
             last  == series[Len(series)]
         IN  IF Member(front, last) THEN front ELSE Append(front, last)

DropNa(series) == SelectSeq(series, LAMBDA v : v # NaN)

(***************************************************************************)
(* A stable ascending sort of keyed items, as Python's sorted and the      *)
(* sort of a groupby's keys order them.                                    *)
(***************************************************************************)
RECURSIVE Insert(_, _)
Insert(sorted, x) ==
    IF sorted = << >> THEN << x >>
    ELSE IF x.key < sorted[1].key THEN << x >> \o sorted
    ELSE << sorted[1] >> \o Insert(Tail(sorted), x)

RECURSIVE SortByKey(_)
SortByKey(items) ==
    IF items = << >> THEN << >>
    ELSE Insert(SortByKey(SubSeq(items, 1, Len(items) - 1)), items[Len(items)])

SortedStrings(seq) ==
    LET items == SortByKey([i \in 1..Len(seq) |-> [key |-> StrRank(seq[i]), val |-> seq[i]]])
    IN  [i \in 1..Len(items) |-> items[i].val]

Count(series, v) == Cardinality({i \in 1..Len(series) : NanEq(series[i], v)})

AppNames(frame) == Unique(Column(frame, "app_name"))

(* Variant: The app filter left out. *)
FilterAppNone(frame, app) == frame

FilterApp(frame, app) == GetItemBool(frame, EqMask(Column(frame, "app_name"), app))

Versions(frame) == SortedStrings(Unique(DropNa(Column(frame, "reviewCreatedVersion"))))

(* Variant: The version filter applied without the test for "All". *)
FilterVersionAlways(frame, version) ==
    GetItemBool(frame, EqMask(Column(frame, "reviewCreatedVersion"), version))

FilterVersion(frame, version) ==
    IF version # All
    THEN GetItemBool(frame, EqMask(Column(frame, "reviewCreatedVersion"), version))
    ELSE frame

(* Variant: The distinct labels listed instead of counted. *)
ValueCountsDistinct(series) ==
    LET uniq == Unique(DropNa(series))
    IN  [i \in 1..Len(uniq) |-> [sentiment_label |-> uniq[i], count |-> 1]]

(***************************************************************************)
(* Series.value_counts(): NaN dropped, one entry per value, most frequent  *)
(* first; reset_index and the column rename give sentiment_df.             *)
(***************************************************************************)
ValueCounts(series) ==
    LET kept  == DropNa(series)
        uniq  == Unique(kept)
        items == SortByKey([i \in 1..Len(uniq) |->
                              [key |-> 0 - Count(kept, uniq[i]),
                               val |-> [sentiment_label |-> uniq[i],
                                        count |-> Count(kept, uniq[i])]]])
    IN  [i \in 1..Len(items) |-> items[i].val]

(***************************************************************************)
(* pd.to_datetime parses the text of `at`; .dt.date truncates a timestamp  *)
(* to its calendar date (an ordinal yyyymmdd here).                        *)
(***************************************************************************)
ToDatetime(text) ==
    CASE text = "2023-05-02 09:00:00" -> "Timestamp('2023-05-02 09:00:00')"
      [] text = "2023-05-01 10:00:00" -> "Timestamp('2023-05-01 10:00:00')"
      [] text = "2023-05-01 18:30:00" -> "Timestamp('2023-05-01 18:30:00')"

DtDate(ts) ==
    CASE ts = "Timestamp('2023-05-02 09:00:00')" -> 20230502
      [] ts = "Timestamp('2023-05-01 10:00:00')" -> 20230501
      [] ts = "Timestamp('2023-05-01 18:30:00')" -> 20230501

ConvertAt(frame) ==
    [index |-> frame.index,
     rows  |-> [i \in 1..Len(frame.rows) |->
                  [frame.rows[i] EXCEPT !.at = ToDatetime(frame.rows[i].at)]]]

(* Variant: The assignment writing through to the frame the selection came from. *)
SetAtColumnInPlace(source, selection) ==
    [source |-> [source EXCEPT !.rows =
                    [i \in 1..Len(source.rows) |->
                        IF Member(selection.index, source.index[i])
                        THEN [source.rows[i] EXCEPT !.at = ToDatetime(source.rows[i].at)]
                        ELSE source.rows[i]]],
     selection |-> ConvertAt(selection)]

(***************************************************************************)
(* filtered_df['at'] = pd.to_datetime(filtered_df['at']).  filtered_df is  *)
(* the copy a boolean-mask selection returns, so the assignment replaces   *)
(* the column of the selection and leaves the frame it was taken from.     *)
(***************************************************************************)
SetAtColumn(source, selection) == [source |-> source, selection |-> ConvertAt(selection)]

(***************************************************************************)
(* groupby(at.dt.date).size().reset_index(name='count') and the rename:    *)
(* groupby sorts its keys.                                                 *)
(***************************************************************************)
Occurrences(series, v) == Cardinality({i \in 1..Len(series) : series[i] = v})

GroupKeyDate(row) == DtDate(row.at)

(* Variant: groupby(sort=False): dates in order of first appearance. *)
DailyCountsUnsorted(frame) ==
    LET dates == [i \in 1..Len(frame.rows) |-> GroupKeyDate(frame.rows[i])]
        uniq  == Unique(dates)
    IN  [i \in 1..Len(uniq) |-> [date |-> uniq[i], count |-> Occurrences(dates, uniq[i])]]

DailyCounts(frame) ==
    LET dates == [i \in 1..Len(frame.rows) |-> GroupKeyDate(frame.rows[i])]
        uniq  == Unique(dates)
        items == SortByKey([i \in 1..Len(uniq) |->
                              [key |-> uniq[i],
                               val |-> [date |-> uniq[i],
                                        count |-> Occurrences(dates, uniq[i])]]])
    IN  [i \in 1..Len(items) |-> items[i].val]

(***************************************************************************)
(* groupby(['reviewCreatedVersion','sentiment_label']).size(): rows with a *)
(* NaN key are left out.  unstack() makes the labels the columns; a cell   *)
(* of a pair without a group is missing (NaN), i.e. outside DOMAIN cells.  *)
(* fillna(0) makes every cell of index x columns present.                  *)
(***************************************************************************)
GroupSizes(frame) ==
    LET keyed == SelectSeq(frame.rows, LAMBDA r : r.reviewCreatedVersion # NaN
                                                  /\ r.sentiment_label # NaN)
        pairs == {<< keyed[i].reviewCreatedVersion, keyed[i].sentiment_label >> :
                    i \in 1..Len(keyed)}
    IN  [p \in pairs |-> Cardinality({i \in 1..Len(keyed) :
                             << keyed[i].reviewCreatedVersion, keyed[i].sentiment_label >> = p})]

Range(seq) == {seq[i] : i \in 1..Len(seq)}

SortedSet(S) == SelectSeq(StrOrder, LAMBDA x : x \in S)

Unstack(sizes) ==
    [index   |-> SortedSet({p[1] : p \in DOMAIN sizes}),
     columns |-> SortedSet({p[2] : p \in DOMAIN sizes}),
     cells   |-> sizes]

(* Variant: The matrix without fillna(0). *)
FillNaNone(table, value) == table

FillNa(table, value) ==
    [table EXCEPT !.cells =
        [p \in Range(table.index) \X Range(table.columns) |->
            IF p \in DOMAIN table.cells THEN table.cells[p] ELSE value]]

HeatmapDf(frame) == FillNa(Unstack(GroupSizes(frame)), 0)

EmptyMatrix == [index |-> << >>, columns |-> << >>, cells |-> << >>]

(***************************************************************************)
(* The question box.  Text is a sequence of characters; str.lower() maps   *)
(* the upper-case letters, `in` is a substring test.                       *)
(***************************************************************************)
UpperCase == << "A", "B", "C", "D", "E", "F", "G", "H", "I", "J", "K", "L", "M",
                "N", "O", "P", "Q", "R", "S", "T", "U", "V", "W", "X", "Y", "Z" >>

LowerCase == << "a", "b", "c", "d", "e", "f", "g", "h", "i", "j", "k", "l", "m",
                "n", "o", "p", "q", "r", "s", "t", "u", "v", "w", "x", "y", "z" >>

LowerChar(c) ==
    IF \E i \in 1..Len(UpperCase) : UpperCase[i] = c
    THEN LowerCase[CHOOSE i \in 1..Len(UpperCase) : UpperCase[i] = c]
    ELSE c

(* Variant: The match made case-sensitive. *)
LowerNone(text) == text

Lower(text) == [i \in 1..Len(text) |-> LowerChar(text[i])]

Contains(text, pattern) ==
    \E i \in 1..(Len(text) - Len(pattern) + 1) :
        SubSeq(text, i, i + Len(pattern) - 1) = pattern

WordNegative == << "n", "e", "g", "a", "t", "i", "v", "e" >>

WordGooglePay == << "g", "o", "o", "g", "l", "e", " ", "p", "a", "y" >>

Recognized(text) ==
    Contains(Lower(text), WordNegative) /\ Contains(Lower(text), WordGooglePay)

NotRecognizedText == "Question not recognized. Try a different query."

CountText == "Google Pay has {count} negative reviews"

NoCount == 0 - 1

NoAnswer == [text |-> "", count |-> NoCount]

NegativeCount(frame) ==
    Shape0(GetItemBool(frame, AndMask(EqMask(Column(frame, "app_name"), "Google Pay"),
                                      EqMask(Column(frame, "sentiment_label"), "negative"))))

Answer(frame, text) ==
    IF Recognized(text)
    THEN [text |-> CountText, count |-> NegativeCount(frame)]
    ELSE [text |-> NotRecognizedText, count |-> NoCount]

Q_empty == << >>
Q_example == <<"H", "o", "w", " ", "m", "a", "n", "y", " ", "n", "e", "g", "a", "t", "i", "v", "e", " ", "r", "e", "v", "i", "e", "w", "s", " ", "f", "o", "r", " ", "G", "o", "o", "g", "l", "e", " ", "P", "a", "y", "?">>
Q_weather == <<"w", "h", "a", "t", " ", "i", "s", " ", "t", "h", "e", " ", "w", "e", "a", "t", "h", "e", "r">>
Q_upper == <<"N", "E", "G", "A", "T", "I", "V", "E", " ", "G", "O", "O", "G", "L", "E", " ", "P", "A", "Y">>
Q_swapped == <<"g", "o", "o", "g", "l", "e", " ", "p", "a", "y", " ", "n", "e", "g", "a", "t", "i", "v", "e">>
Q_only_negative == <<"n", "e", "g", "a", "t", "i", "v", "e", " ", "P", "h", "o", "n", "e", "P", "e">>
Q_only_app == <<"G", "o", "o", "g", "l", "e", " ", "P", "a", "y", " ", "p", "o", "s", "i", "t", "i", "v", "e">>
Q_split == <<"n", "e", "g", "a", "t", "i", "v", "e", " ", "g", "o", "o", "g", "l", "e", " ", " ", "p", "a", "y">>
Q_blank == <<" ">>

Questions == {Q_empty, Q_example, Q_weather, Q_upper, Q_swapped, Q_only_negative,
              Q_only_app, Q_split, Q_blank}

(***************************************************************************)
(* st.selectbox: the widget is identified by its label and options; while  *)
(* these are unchanged it returns the session's value, otherwise the first *)
(* option (index 0), or None without options.                              *)
(***************************************************************************)
NoWidget == [options |-> << >>, value |-> None]

(* Variant: A selector that keeps its session value when its options change. *)
SelectBoxSticky(widget, options) ==
    IF options = << >> THEN None
    ELSE IF widget.options # << >> THEN widget.value
    ELSE options[1]

SelectBox(widget, options) ==
    IF options = << >> THEN None
    ELSE IF widget.options = options THEN widget.value
    ELSE options[1]

ChartOptions == << "Pie Chart", "Bar Chart", "Box Plot", "Line Chart", "Heatmap",
                   "All Visualizations" >>

(***************************************************************************)
(* State.                                                                  *)
(*   file_exists, csv   the backing file and its (fixed) content           *)
(*   cache, reads       the st.cache_data entry of load_data, and how many *)
(*                      times pd.read_csv has run in this process          *)
(*   w_app, w_version, chart_choice, question   the session's widgets      *)
(*   pc                 the position of the running script                 *)
(*   absent_at_start    whether the file was absent when this run started  *)
(*   loaded, df, ...    the names the run has bound so far                 *)
(*   page               the elements the run has emitted                   *)
(***************************************************************************)
VARIABLES file_exists, csv, cache, reads,
          w_app, w_version, chart_choice, question,
          pc, absent_at_start, loaded, df, app_names, selected_app, filtered_df,
          versions, selected_version, answer, sentiment_df, daily_counts,
          heatmap_df, page

vars == << file_exists, csv, cache, reads, w_app, w_version, chart_choice, question,
           pc, absent_at_start, loaded, df, app_names, selected_app, filtered_df,
           versions, selected_version, answer, sentiment_df, daily_counts,
           heatmap_df, page >>

env == << file_exists, csv >>

widgets == << w_app, w_version, chart_choice, question >>

EmptyCache == [full |-> FALSE, value |-> EmptyFrame]

(***************************************************************************)
(* A run starts with nothing bound and nothing on the page.                *)
(***************************************************************************)
FreshRun(absent) ==
    /\ pc = "check"
    /\ absent_at_start = absent
    /\ loaded = FALSE
    /\ df = EmptyFrame
    /\ app_names = << >>
    /\ selected_app = None
    /\ filtered_df = EmptyFrame
    /\ versions = << >>
    /\ selected_version = None
    /\ answer = NoAnswer
    /\ sentiment_df = << >>
    /\ daily_counts = << >>
    /\ heatmap_df = EmptyMatrix
    /\ page = << >>

StartRun ==
    /\ pc' = "check"
    /\ absent_at_start' = ~file_exists
    /\ loaded' = FALSE
    /\ df' = EmptyFrame
    /\ app_names' = << >>
    /\ selected_app' = None
    /\ filtered_df' = EmptyFrame
    /\ versions' = << >>
    /\ selected_version' = None
    /\ answer' = NoAnswer
    /\ sentiment_df' = << >>
    /\ daily_counts' = << >>
    /\ heatmap_df' = EmptyMatrix
    /\ page' = << >>

Init ==
    /\ csv \in SampleCsvs
    /\ file_exists \in BOOLEAN
    /\ cache = EmptyCache
    /\ reads = 0
    /\ w_app = NoWidget
    /\ w_version = NoWidget
    /\ chart_choice = ChartOptions[1]
    /\ question = Q_empty
    /\ FreshRun(~file_exists)

(* Variant: The existence test without st.stop(). *)
AfterCheckNoStop(exists) == "load"

(***************************************************************************)
(* Lines 10-18: page header, then the existence test; st.stop() ends the   *)
(* run.  Widgets that a run does not reach lose their session value.       *)
(***************************************************************************)
AfterCheck(exists) == IF exists THEN "load" ELSE "stopped"

CheckFile ==
    /\ pc = "check"
    /\ pc' = AfterCheck(file_exists)
    /\ page' = IF file_exists THEN << "title", "intro" >>
               ELSE << "title", "intro", "error" >>
    /\ w_app' = IF pc' = "stopped" THEN NoWidget ELSE w_app
    /\ w_version' = IF pc' = "stopped" THEN NoWidget ELSE w_version
    /\ chart_choice' = IF pc' = "stopped" THEN ChartOptions[1] ELSE chart_choice
    /\ question' = IF pc' = "stopped" THEN Q_empty ELSE question
    /\ UNCHANGED << env, cache, reads, absent_at_start, loaded, df, app_names,
                    selected_app, filtered_df, versions, selected_version, answer,
                    sentiment_df, daily_counts, heatmap_df >>

(* Variant: load_data without memoization. *)
CacheNeverHit(entry) == FALSE

(***************************************************************************)
(* Lines 20-24: df = load_data() under @st.cache_data.  A hit returns the  *)
(* stored table, a miss runs pd.read_csv and stores its result.            *)
(***************************************************************************)
CacheHit(entry) == entry.full

LoadData ==
    /\ pc = "load"
    /\ IF CacheHit(cache)
       THEN /\ df' = cache.value
            /\ UNCHANGED << cache, reads >>
       ELSE /\ file_exists
            /\ reads < MaxReads
            /\ reads' = reads + 1
            /\ cache' = [full |-> TRUE, value |-> ReadCsv(csv)]
            /\ df' = ReadCsv(csv)
    /\ loaded' = TRUE
    /\ pc' = "app"
    /\ UNCHANGED << env, widgets, absent_at_start, app_names, selected_app,
                    filtered_df, versions, selected_version, answer, sentiment_df,
                    daily_counts, heatmap_df, page >>

(***************************************************************************)
(* Lines 27-31: the app selector and the app filter.                       *)
(***************************************************************************)
SelectApp ==
    /\ pc = "app"
    /\ app_names' = AppNames(df)
    /\ selected_app' = SelectBox(w_app, app_names')
    /\ w_app' = [options |-> app_names', value |-> selected_app']
    /\ filtered_df' = FilterApp(df, selected_app')
    /\ page' = Append(page, "app_selector")
    /\ pc' = "version"
    /\ UNCHANGED << env, cache, reads, w_version, chart_choice, question,
                    absent_at_start, loaded, df, versions, selected_version, answer,
                    sentiment_df, daily_counts, heatmap_df >>

(***************************************************************************)
(* Lines 34-37: the version selector and the version filter.               *)
(***************************************************************************)
VersionOptions(frame) == << All >> \o Versions(frame)

SelectVersion ==
    /\ pc = "version"
    /\ versions' = Versions(filtered_df)
    /\ selected_version' = SelectBox(w_version, VersionOptions(filtered_df))
    /\ w_version' = [options |-> VersionOptions(filtered_df), value |-> selected_version']
    /\ filtered_df' = FilterVersion(filtered_df, selected_version')
    /\ page' = Append(page, "version_selector")
    /\ pc' = "question"
    /\ UNCHANGED << env, cache, reads, w_app, chart_choice, question,
                    absent_at_start, loaded, df, app_names, selected_app, answer,
                    sentiment_df, daily_counts, heatmap_df >>

(***************************************************************************)
(* Lines 40-65: the chart selector, the question box and the answer.       *)
(***************************************************************************)
AnswerQuestion ==
    /\ pc = "question"
    /\ IF question # Q_empty
       THEN /\ answer' = Answer(df, question)
            /\ page' = page \o << "chart_selector", "question_box", "answer" >>
       ELSE /\ answer' = answer
            /\ page' = page \o << "chart_selector", "question_box" >>
    /\ pc' = "prepare"
    /\ UNCHANGED << env, cache, reads, widgets, absent_at_start, loaded, df,
                    app_names, selected_app, filtered_df, versions, selected_version,
                    sentiment_df, daily_counts, heatmap_df >>

(***************************************************************************)
(* Lines 70-73: chart data preparation.                                    *)
(***************************************************************************)
PrepareChartData ==
    /\ pc = "prepare"
    /\ sentiment_df' = ValueCounts(Column(filtered_df, "sentiment_label"))
    /\ df' = SetAtColumn(df, filtered_df).source
    /\ filtered_df' = SetAtColumn(df, filtered_df).selection
    /\ pc' = "render"
    /\ UNCHANGED << env, cache, reads, widgets, absent_at_start, loaded, app_names,
                    selected_app, versions, selected_version, answer, daily_counts,
                    heatmap_df, page >>

(***************************************************************************)
(* Lines 79-214: the chosen chart(s) and the footer.                       *)
(***************************************************************************)
ChartsOf(choice) ==
    CASE choice = "Pie Chart" -> << "pie" >>
      [] choice = "Bar Chart" -> << "bar" >>
      [] choice = "Box Plot" -> << "box" >>
      [] choice = "Line Chart" -> << "line" >>
      [] choice = "Heatmap" -> << "heatmap" >>
      [] choice = "All Visualizations" -> << "pie", "bar", "box", "line", "heatmap" >>

RenderCharts ==
    /\ pc = "render"
    /\ daily_counts' = IF Member(ChartsOf(chart_choice), "line")
                       THEN DailyCounts(filtered_df) ELSE daily_counts
    /\ heatmap_df' = IF Member(ChartsOf(chart_choice), "heatmap")
                     THEN HeatmapDf(filtered_df) ELSE heatmap_df
    /\ page' = page \o << "header" >> \o ChartsOf(chart_choice) \o << "footer" >>
    /\ pc' = "done"
    /\ UNCHANGED << env, cache, reads, widgets, absent_at_start, loaded, df,
                    app_names, selected_app, filtered_df, versions, selected_version,
                    answer, sentiment_df >>

(***************************************************************************)
(* User interactions.  Each one changes a widget of the rendered page and  *)
(* triggers a rerun of the script.                                         *)
(***************************************************************************)
ChangeApp ==
    /\ pc = "done"
    /\ \E a \in Range(w_app.options) :
        /\ a # w_app.value
        /\ w_app' = [w_app EXCEPT !.value = a]
    /\ StartRun
    /\ UNCHANGED << env, cache, reads, w_version, chart_choice, question >>

ChangeVersion ==
    /\ pc = "done"
    /\ \E v \in Range(w_version.options) :
        /\ v # w_version.value
        /\ w_version' = [w_version EXCEPT !.value = v]
    /\ StartRun
    /\ UNCHANGED << env, cache, reads, w_app, chart_choice, question >>

ChangeChart ==
    /\ pc = "done"
    /\ \E c \in Range(ChartOptions) :
        /\ c # chart_choice
        /\ chart_choice' = c
    /\ StartRun
    /\ UNCHANGED << env, cache, reads, w_app, w_version, question >>

AskQuestion ==
    /\ pc = "done"
    /\ \E q \in Questions :
        /\ q # question
        /\ question' = q
    /\ StartRun
    /\ UNCHANGED << env, cache, reads, w_app, w_version, chart_choice >>

Rerun ==
    /\ pc \in {"done", "stopped"}
    /\ StartRun
    /\ UNCHANGED << env, cache, reads, widgets >>

(***************************************************************************)
(* The environment: between runs the backing file may be removed or put    *)
(* back; its content does not change.                                      *)
(***************************************************************************)
RemoveFile ==
    /\ pc \in {"done", "stopped"}
    /\ file_exists
    /\ file_exists' = FALSE
    /\ UNCHANGED << csv, cache, reads, widgets, pc, absent_at_start, loaded, df,
                    app_names, selected_app, filtered_df, versions, selected_version,
                    answer, sentiment_df, daily_counts, heatmap_df, page >>

RestoreFile ==
    /\ pc \in {"done", "stopped"}
    /\ ~file_exists
    /\ file_exists' = TRUE
    /\ UNCHANGED << csv, cache, reads, widgets, pc, absent_at_start, loaded, df,
                    app_names, selected_app, filtered_df, versions, selected_version,
                    answer, sentiment_df, daily_counts, heatmap_df, page >>

Next ==
    \/ CheckFile
    \/ LoadData
    \/ SelectApp
    \/ SelectVersion
    \/ AnswerQuestion
    \/ PrepareChartData
    \/ RenderCharts
    \/ ChangeApp
    \/ ChangeVersion
    \/ ChangeChart
    \/ AskQuestion
    \/ Rerun
    \/ RemoveFile
    \/ RestoreFile

Spec == Init /\ [][Next]_vars

(***************************************************************************)
(* The filter-and-aggregate pipeline over every table of up to MaxRows     *)
(* rows: the file is present, every chart is shown, and the user walks     *)
(* through the app and version selections.                                 *)
(***************************************************************************)
InitPipeline ==
    /\ csv \in Csvs
    /\ file_exists = TRUE
    /\ cache = EmptyCache
    /\ reads = 0
    /\ w_app = NoWidget
    /\ w_version = NoWidget
    /\ chart_choice = "All Visualizations"
    /\ question = Q_empty
    /\ FreshRun(FALSE)

NextPipeline ==
    \/ CheckFile
    \/ LoadData
    \/ SelectApp
    \/ SelectVersion
    \/ AnswerQuestion
    \/ PrepareChartData
    \/ RenderCharts
    \/ ChangeApp
    \/ ChangeVersion

PipelineSpec == InitPipeline /\ [][NextPipeline]_vars

(***************************************************************************)
(* Vocabulary of the properties, stated over the file's own rows.          *)
(***************************************************************************)
Positioned(frame) == {frame.index[k] + 1 : k \in 1..Len(frame.index)}

NoRepeats(seq) == Cardinality(Range(seq)) = Len(seq)

CsvWhereApp(a) == {i \in 1..Len(csv) : csv[i].app_name = a}

CsvWhereAppVersion(a, v) ==
    {i \in 1..Len(csv) : csv[i].app_name = a /\ csv[i].reviewCreatedVersion = v}

FilterDone == pc \in {"question", "prepare", "render", "done"}

Unconverted == pc \in {"version", "question", "prepare"}

SameRowsAsTable(frame) ==
    /\ Len(frame.index) = Len(frame.rows)
    /\ NoRepeats(frame.index)
    /\ \A k \in 1..Len(frame.rows) :
          /\ frame.index[k] + 1 \in 1..Len(df.rows)
          /\ frame.rows[k] = df.rows[frame.index[k] + 1]

(***************************************************************************)
(* C1: for every app A among the distinct app_name values, the app filter  *)
(* with version "All" keeps exactly the rows whose app_name is A, each     *)
(* once and unchanged; the views of distinct apps are disjoint and         *)
(* together they cover the table.                                          *)
(***************************************************************************)
AppFilterPartitions ==
    /\ loaded =>
          /\ \A a \in Range(AppNames(df)) :
                /\ Positioned(FilterApp(df, a)) = CsvWhereApp(a)
                /\ SameRowsAsTable(FilterApp(df, a))
          /\ \A a, b \in Range(AppNames(df)) :
                a # b => Positioned(FilterApp(df, a)) \cap Positioned(FilterApp(df, b)) = {}
          /\ UNION {Positioned(FilterApp(df, a)) : a \in Range(AppNames(df))} = 1..Len(csv)
    /\ (pc = "version" \/ (Unconverted /\ selected_version = All)) =>
          /\ Positioned(filtered_df) = CsvWhereApp(selected_app)
          /\ SameRowsAsTable(filtered_df)

AppFilterWitness ==
    /\ pc = "question"
    /\ selected_version = All
    /\ Len(app_names) = 2
    /\ selected_app = app_names[2]
    /\ Len(filtered_df.rows) >= 1
    /\ Len(filtered_df.rows) < Len(df.rows)

(***************************************************************************)
(* C2: with the version selector at "All" the filtered view is the         *)
(* app-only view unchanged; at any other offered value V it is exactly the *)
(* rows of the app-only view whose reviewCreatedVersion equals V.          *)
(***************************************************************************)
VersionFilterExact ==
    (FilterDone /\ Unconverted) =>
        IF selected_version = All
        THEN filtered_df = FilterApp(df, selected_app)
        ELSE /\ Positioned(filtered_df) = CsvWhereAppVersion(selected_app, selected_version)
             /\ SameRowsAsTable(filtered_df)
             /\ filtered_df.rows =
                   SelectSeq(FilterApp(df, selected_app).rows,
                             LAMBDA r : r.reviewCreatedVersion = selected_version)

VersionFilterWitness ==
    /\ pc = "question"
    /\ selected_version # All
    /\ Len(filtered_df.rows) >= 1
    /\ Len(filtered_df.rows) < Len(FilterApp(df, selected_app).rows)

(***************************************************************************)
(* C3: a run that starts without the input file shows the error and stops: *)
(* it never leaves the existence test, binds no table, evaluates no        *)
(* selector, answers no question and produces no aggregate or chart.       *)
(***************************************************************************)
MissingFileHalts ==
    absent_at_start =>
        /\ pc \in {"check", "stopped"}
        /\ pc = "stopped" => page = << "title", "intro", "error" >>
        /\ pc = "check" => page = << >>
        /\ ~loaded
        /\ df = EmptyFrame
        /\ app_names = << >> /\ selected_app = None
        /\ versions = << >> /\ selected_version = None
        /\ filtered_df = EmptyFrame
        /\ answer = NoAnswer
        /\ sentiment_df = << >> /\ daily_counts = << >> /\ heatmap_df = EmptyMatrix

MissingFileWitness ==
    /\ pc = "stopped"
    /\ absent_at_start
    /\ cache.full

(***************************************************************************)
(* C4: whatever the user has done, the cached table and the table the run  *)
(* reads hold exactly the rows and cells parsed from the file, also after  *)
(* the `at` column of the filtered view has been converted.                *)
(***************************************************************************)
SourceTableUntouched ==
    /\ cache.full => cache.value = ReadCsv(csv)
    /\ loaded =>
          /\ Len(df.rows) = Len(csv)
          /\ \A i \in 1..Len(csv) :
                /\ df.index[i] = i - 1
                /\ df.rows[i].app_name = csv[i].app_name
                /\ df.rows[i].sentiment_label = csv[i].sentiment_label
                /\ df.rows[i].at = csv[i].at
                /\ df.rows[i].reviewCreatedVersion = ParseField(csv[i].reviewCreatedVersion)

SourceTableWitness ==
    /\ pc = "done"
    /\ chart_choice = "Line Chart"
    /\ question # Q_empty
    /\ selected_version \notin {All, None}
    /\ Len(filtered_df.rows) >= 1
    /\ filtered_df.rows[1].at \notin AtTexts

(***************************************************************************)
(* C5: a non-empty question is answered with the number of rows of the     *)
(* whole table that have app_name "Google Pay" and sentiment_label         *)
(* "negative" exactly when its lower-cased text contains "negative" and    *)
(* "google pay"; any other non-empty question gets the fixed message; the  *)
(* run goes on to the charts in both cases.                                *)
(***************************************************************************)
MatchingQuestions == {Q_example, Q_upper, Q_swapped}

GooglePayNegatives ==
    Cardinality({i \in 1..Len(csv) : csv[i].app_name = "Google Pay"
                                     /\ csv[i].sentiment_label = "negative"})

QuestionAnswered ==
    /\ pc \in {"prepare", "render", "done"} =>
          IF question = Q_empty THEN answer = NoAnswer
          ELSE IF question \in MatchingQuestions
          THEN answer = [text |-> CountText, count |-> GooglePayNegatives]
          ELSE answer = [text |-> NotRecognizedText, count |-> NoCount]
    /\ answer # NoAnswer => pc \in {"prepare", "render", "done"}
    /\ (pc = "done" /\ answer # NoAnswer) =>
          /\ Member(page, "answer")
          /\ \A c \in Range(ChartsOf(chart_choice)) : Member(page, c)

QuestionWitness ==
    /\ pc = "done"
    /\ question = Q_example
    /\ answer.count >= 1
    /\ selected_app # "Google Pay"
    /\ Member(page, "pie")

(***************************************************************************)
(* C6: the counts of sentimentCounts add up to the number of rows of the   *)
(* filtered view, for every app and version selection.                     *)
(***************************************************************************)
RECURSIVE SumCounts(_)
SumCounts(entries) ==
    IF entries = << >> THEN 0
    ELSE entries[1].count + SumCounts(Tail(entries))

SentimentCountsTotal ==
    pc \in {"render", "done"} => SumCounts(sentiment_df) = Len(filtered_df.rows)

SentimentCountsWitness ==
    /\ pc = "done"
    /\ Len(filtered_df.rows) >= 2
    /\ Len(sentiment_df) = 1
    /\ selected_version \notin {All, None}

(***************************************************************************)
(* C7: every cell of versionSentimentMatrix is present and not negative;   *)
(* the cell of a (version, label) pair is the number of rows of the view   *)
(* with that pair, hence >= 1 for a pair that occurs and 0 for a pair of   *)
(* the matrix that occurs in no row.  (A row without a version has no      *)
(* pair.)                                                                  *)
(***************************************************************************)
RowsWithPair(v, l) ==
    {k \in 1..Len(filtered_df.rows) :
        /\ filtered_df.rows[k].reviewCreatedVersion = v
        /\ filtered_df.rows[k].sentiment_label = l}

HeatmapCells ==
    (pc = "done" /\ Member(page, "heatmap")) =>
        /\ \A v \in Range(heatmap_df.index), l \in Range(heatmap_df.columns) :
              /\ << v, l >> \in DOMAIN heatmap_df.cells
              /\ heatmap_df.cells[<< v, l >>] >= 0
              /\ heatmap_df.cells[<< v, l >>] = Cardinality(RowsWithPair(v, l))
        /\ \A k \in 1..Len(filtered_df.rows) :
              filtered_df.rows[k].reviewCreatedVersion # NaN =>
                 /\ Member(heatmap_df.index, filtered_df.rows[k].reviewCreatedVersion)
                 /\ Member(heatmap_df.columns, filtered_df.rows[k].sentiment_label)
                 /\ heatmap_df.cells[<< filtered_df.rows[k].reviewCreatedVersion,
                                        filtered_df.rows[k].sentiment_label >>] >= 1

HeatmapWitness ==
    /\ pc = "done"
    /\ Member(page, "heatmap")
    /\ Len(heatmap_df.index) = 2
    /\ Len(heatmap_df.columns) = 2
    /\ \E p \in DOMAIN heatmap_df.cells : heatmap_df.cells[p] = 0

(***************************************************************************)
(* C8: in one process pd.read_csv runs at most once; once the table is     *)
(* memoized every later load_data() returns it without reading the file.   *)
(***************************************************************************)
ReadAtMostOnce ==
    /\ reads <= 1
    /\ cache.full <=> reads = 1
    /\ loaded => reads = 1

ReadOnceWitness ==
    /\ pc = "done"
    /\ reads = 1
    /\ chart_choice = "Heatmap"
    /\ question = Q_weather

(***************************************************************************)
(* C9: dailyVolume has one entry per distinct calendar date of `at` in the *)
(* view, in strictly ascending date order, each with the number of rows of *)
(* the view on that date.                                                  *)
(***************************************************************************)
CalendarDate(text) ==
    CASE text = "2023-05-02 09:00:00" -> 20230502
      [] text = "2023-05-01 10:00:00" -> 20230501
      [] text = "2023-05-01 18:30:00" -> 20230501

ViewDates == {CalendarDate(csv[i].at) : i \in Positioned(filtered_df)}

DailyVolumeSorted ==
    (pc = "done" /\ Member(page, "line")) =>
        /\ {daily_counts[k].date : k \in 1..Len(daily_counts)} = ViewDates
        /\ Len(daily_counts) = Cardinality(ViewDates)
        /\ \A j, k \in 1..Len(daily_counts) :
              j < k => daily_counts[j].date < daily_counts[k].date
        /\ \A k \in 1..Len(daily_counts) :
              daily_counts[k].count =
                 Cardinality({i \in Positioned(filtered_df) :
                                 CalendarDate(csv[i].at) = daily_counts[k].date})

DailyVolumeWitness ==
    /\ pc = "done"
    /\ Member(page, "line")
    /\ Len(filtered_df.rows) = 2
    /\ Len(daily_counts) = 2
    /\ CalendarDate(csv[filtered_df.index[1] + 1].at)
          > CalendarDate(csv[filtered_df.index[2] + 1].at)

(***************************************************************************)
(* C10: the version selector offers "All" followed by exactly the distinct *)
(* non-null reviewCreatedVersion values of the selected app's rows, so a   *)
(* selected version other than "All" always leaves at least one row.       *)
(***************************************************************************)
AppVersionsInCsv(a) ==
    {csv[i].reviewCreatedVersion : i \in CsvWhereApp(a)} \ {""}

OfferedVersionHasRows ==
    /\ FilterDone =>
          /\ w_version.options[1] = All
          /\ Range(Tail(w_version.options)) = AppVersionsInCsv(selected_app)
          /\ NoRepeats(w_version.options)
          /\ Tail(w_version.options) = versions
          /\ Member(w_version.options, selected_version)
          /\ selected_version # All => Len(filtered_df.rows) >= 1
    /\ loaded =>
          \A a \in Range(AppNames(df)) :
             \A v \in Range(Versions(FilterApp(df, a))) :
                Shape0(FilterVersion(FilterApp(df, a), v)) >= 1

OfferedVersionWitness ==
    /\ pc = "done"
    /\ selected_version # All
    /\ Len(versions) = 1
    /\ \E i \in CsvWhereApp(selected_app) : csv[i].reviewCreatedVersion = ""

====
